---- MODULE Spec2Model ----
(***************************************************************************)
(* partialjson: completion of truncated JSON text.                         *)
(*                                                                         *)
(* A text is a sequence of one-character strings.  The recursive parser    *)
(* (parseAny and the rules it dispatches to), the top-level entry parse,   *)
(* EnsureJSON and FastEnsureJSON are operators translated from             *)
(* json_parser.go; encoding/json (Marshal, Unmarshal) and strconv are      *)
(* modelled by what they do on the characters the model uses.  A local     *)
(* variable of the source that several later statements read is a          *)
(* parameter of the operator that models those statements.                 *)
(***************************************************************************)
EXTENDS Integers, Sequences, FiniteSets, TLC

(***************************************************************************)
(* Characters                                                              *)
(***************************************************************************)
QUOTE == "\""
BSLASH == "\\"
DigitChars == << "0", "1", "2", "3", "4", "5", "6", "7", "8", "9" >>
Digits == {"0", "1", "2", "3", "4", "5", "6", "7", "8", "9"}
HexDigits == Digits \cup {"a", "b", "c", "d", "e", "f", "A", "B", "C", "D", "E", "F"}
\* strings.TrimSpace and the whitespace entries of the dispatch table
WhiteSpace == {" ", "\t", "\n", "\r"}
Closers == {"]", "}"}

\* byte order of the characters, for the encoder's sorting of object keys
CharOrder ==
  << "\t", "\n", "\f", "\r", " ", "!", "\"", "#", "$", "%", "&", "'", "(", ")",
     "*", "+", ",", "-", ".", "/", "0", "1", "2", "3", "4", "5", "6", "7", "8",
     "9", ":", ";", "<", "=", ">", "?", "@", "A", "B", "C", "D", "E", "F", "G",
     "H", "I", "J", "K", "L", "M", "N", "O", "P", "Q", "R", "S", "T", "U", "V",
     "W", "X", "Y", "Z", "[", "\\", "]", "^", "_", "a", "b", "c", "d", "e",
     "f", "g", "h", "i", "j", "k", "l", "m", "n", "o", "p", "q", "r", "s", "t",
     "u", "v", "w", "x", "y", "z", "{", "|", "}", "~" >>

\* the place of c in order, one past its end when c is not there
PlaceIn(order, c) ==
  IF \E i \in 1..Len(order) : order[i] = c
  THEN CHOOSE i \in 1..Len(order) : order[i] = c
  ELSE Len(order) + 1

CharCode(c) == PlaceIn(CharOrder, c)

(***************************************************************************)
(* Go string helpers (0-based positions as in the source)                  *)
(***************************************************************************)
\* s[i:]
From(s, i) == SubSeq(s, i + 1, Len(s))
\* s[:i]
Upto(s, i) == SubSeq(s, 1, i)
\* s[i]
At(s, i) == s[i + 1]

\* strings.Index(s, c) for a one-character c: first position, or -1
Index(s, c) ==
  IF \E i \in 1..Len(s) : s[i] = c
  THEN (CHOOSE i \in 1..Len(s) : s[i] = c /\ \A j \in 1..(i - 1) : s[j] # c) - 1
  ELSE -1

HasPrefix(s, p) == Len(s) >= Len(p) /\ SubSeq(s, 1, Len(p)) = p
HasSuffix(s, p) == Len(s) >= Len(p) /\ SubSeq(s, Len(s) - Len(p) + 1, Len(s)) = p

RECURSIVE TrimLeft(_)
TrimLeft(s) ==
  IF Len(s) > 0 /\ s[1] \in WhiteSpace THEN TrimLeft(Tail(s)) ELSE s

RECURSIVE TrimRight(_)
TrimRight(s) ==
  IF Len(s) > 0 /\ s[Len(s)] \in WhiteSpace
  THEN TrimRight(SubSeq(s, 1, Len(s) - 1)) ELSE s

\* strings.TrimSpace: both ends
TrimSpace(s) == TrimRight(TrimLeft(s))

(***************************************************************************)
(* Values (Go `any` as the parser builds it)                               *)
(*   k = "null" | "bool" | "num" | "str" | "arr" | "obj"                   *)
(* An object is its members sorted by key (a map has no order; the encoder *)
(* sorts the keys), one member per key.                                    *)
(***************************************************************************)
Null == [k |-> "null", v |-> <<>>]
Bool(b) == [k |-> "bool", v |-> b]
Str(s) == [k |-> "str", v |-> s]
Arr(a) == [k |-> "arr", v |-> a]
Obj(m) == [k |-> "obj", v |-> m]
\* a float64: (-1)^neg * digits * 10^exp, digits without leading or
\* trailing zeros (empty for zero)
Num(neg, digits, exp) ==
  [k |-> "num", v |-> [digits |-> digits, exp |-> exp, neg |-> neg]]

EmptyObj == Obj(<<>>)

\* byte-wise order of two strings
RECURSIVE StrLess(_, _)
StrLess(a, b) ==
  IF Len(b) = 0 THEN FALSE
  ELSE IF Len(a) = 0 THEN TRUE
  ELSE IF a[1] = b[1] THEN StrLess(Tail(a), Tail(b))
  ELSE CharCode(a[1]) < CharCode(b[1])

\* acc[key] = val on a map
RECURSIVE MapPut(_, _, _)
MapPut(m, key, val) ==
  IF Len(m) = 0 THEN << [key |-> key, val |-> val] >>
  ELSE IF m[1].key = key THEN << [key |-> key, val |-> val] >> \o Tail(m)
  ELSE IF StrLess(key, m[1].key) THEN << [key |-> key, val |-> val] >> \o m
  ELSE << m[1] >> \o MapPut(Tail(m), key, val)

MapHas(m, key) == \E i \in 1..Len(m) : m[i].key = key
MapGet(m, key) == m[CHOOSE i \in 1..Len(m) : m[i].key = key].val

(***************************************************************************)
(* Errors                                                                  *)
(***************************************************************************)
NoErr == "nil"
ErrIncompleteString == "incomplete string"
ErrUnexpectedToken == "unexpected token"
ErrIncompleteNum == "incomplete num"
\* an error returned by encoding/json
ErrJSON == "json: syntax error"

\* what a parsing rule returns: (value, remaining text, error)
Ret(val, rest, err) == [val |-> val, rest |-> rest, err |-> err]

(***************************************************************************)
(* strconv.ParseFloat and the encoder's float formatting.  A float64 is    *)
(* kept as its shortest decimal form, which is what ParseFloat followed by *)
(* FormatFloat(-1) preserves for numerals of up to 15 significant digits.  *)
(***************************************************************************)
\* largest and smallest decimal exponent (d.ddd * 10^x) of a finite,
\* non-zero float64
MaxDecExp == 308
MinDecExp == -324

DigitVal(c) == PlaceIn(DigitChars, c) - 1

RECURSIVE DigitsToInt(_)
DigitsToInt(ds) ==
  IF Len(ds) = 0 THEN 0
  ELSE 10 * DigitsToInt(SubSeq(ds, 1, Len(ds) - 1)) + DigitVal(ds[Len(ds)])

RECURSIVE IntToDigits(_)
IntToDigits(n) ==
  IF n < 10 THEN << DigitChars[n + 1] >>
  ELSE IntToDigits(n \div 10) \o << DigitChars[(n % 10) + 1] >>

RECURSIVE StripLeadingZeros(_)
StripLeadingZeros(ds) ==
  IF Len(ds) > 0 /\ ds[1] = "0" THEN StripLeadingZeros(Tail(ds)) ELSE ds

RECURSIVE StripTrailingZeros(_)
StripTrailingZeros(ds) ==
  IF Len(ds) > 0 /\ ds[Len(ds)] = "0"
  THEN StripTrailingZeros(SubSeq(ds, 1, Len(ds) - 1)) ELSE ds

Zeros(n) == [i \in 1..n |-> "0"]

\* the float64 of  digits * 10^ex  (digits without leading or trailing
\* zeros): "range" when it overflows; an underflow gives zero
Float(neg, ds, ex) ==
  IF Len(ds) = 0 THEN [ok |-> TRUE, val |-> Num(neg, <<>>, 0)]
  ELSE IF ex + Len(ds) - 1 > MaxDecExp THEN [ok |-> FALSE, val |-> Null]
  ELSE IF ex + Len(ds) - 1 < MinDecExp THEN [ok |-> TRUE, val |-> Num(neg, <<>>, 0)]
  ELSE [ok |-> TRUE, val |-> Num(neg, ds, ex)]

\* the float64 of  all * 10^e  (all without leading zeros)
Decimal(neg, all, e) ==
  Float(neg, StripTrailingZeros(all), e + Len(all) - Len(StripTrailingZeros(all)))

\* strconv.ParseFloat on  [-] int [. frac] [e [sign] exp]
ParseFloat(neg, int, frac, expNeg, expDigits) ==
  Decimal(neg, StripLeadingZeros(int \o frac),
          (IF expNeg THEN 0 - DigitsToInt(expDigits) ELSE DigitsToInt(expDigits))
            - Len(frac))

\* encoding/json floatEncoder on digits ds and decimal exponent dec: format
\* 'f', or 'e' when abs < 1e-6 or abs >= 1e21 (with the exponent's leading
\* zero removed)
FormatFloat(sign, ds, ex, dec) ==
  IF Len(ds) = 0 THEN sign \o << "0" >>
  ELSE IF dec < -6 \/ dec >= 21
  THEN sign \o << ds[1] >>
       \o (IF Len(ds) > 1 THEN << "." >> \o Tail(ds) ELSE <<>>)
       \o << "e", IF dec < 0 THEN "-" ELSE "+" >>
       \o IntToDigits(IF dec < 0 THEN 0 - dec ELSE dec)
  ELSE IF ex >= 0 THEN sign \o ds \o Zeros(ex)
  ELSE IF Len(ds) > 0 - ex
  THEN sign \o SubSeq(ds, 1, Len(ds) + ex) \o << "." >>
       \o SubSeq(ds, Len(ds) + ex + 1, Len(ds))
  ELSE sign \o << "0", "." >> \o Zeros((0 - ex) - Len(ds)) \o ds

MarshalNum(n) ==
  FormatFloat(IF n.neg THEN << "-" >> ELSE <<>>, n.digits, n.exp,
              n.exp + Len(n.digits) - 1)

(***************************************************************************)
(* encoding/json: string literals                                          *)
(***************************************************************************)
\* the character an escape letter stands for ("" when it is no escape)
EscapeChar(c) ==
  CASE c = QUOTE -> QUOTE
    [] c = BSLASH -> BSLASH
    [] c = "/" -> "/"
    [] c = "b" -> "\\b"
    [] c = "f" -> "\f"
    [] c = "n" -> "\n"
    [] c = "r" -> "\r"
    [] c = "t" -> "\t"
    [] OTHER -> ""

ControlChars == {"\t", "\n", "\f", "\r", "\\b"}

\* decodes the content of a string literal from position i (1-based) of s,
\* the opening quote consumed: the decoded characters, the position after
\* the closing quote, or ok = FALSE (no closing quote, bad escape, control
\* character).  \uXXXX decodes to one character, written as the escape.
RECURSIVE Unquote(_, _, _)
Unquote(s, i, acc) ==
  IF i > Len(s) THEN [ok |-> FALSE, str |-> acc, next |-> i]
  ELSE IF s[i] = QUOTE THEN [ok |-> TRUE, str |-> acc, next |-> i + 1]
  ELSE IF s[i] \in ControlChars THEN [ok |-> FALSE, str |-> acc, next |-> i]
  ELSE IF s[i] = BSLASH
  THEN IF i + 1 > Len(s) THEN [ok |-> FALSE, str |-> acc, next |-> i]
       ELSE IF s[i + 1] = "u"
       THEN IF i + 5 <= Len(s) /\ \A j \in (i + 2)..(i + 5) : s[j] \in HexDigits
            THEN Unquote(s, i + 6,
                         Append(acc, "u+" \o s[i+2] \o s[i+3] \o s[i+4] \o s[i+5]))
            ELSE [ok |-> FALSE, str |-> acc, next |-> i]
       ELSE IF EscapeChar(s[i + 1]) = "" THEN [ok |-> FALSE, str |-> acc, next |-> i]
       ELSE Unquote(s, i + 2, Append(acc, EscapeChar(s[i + 1])))
  ELSE Unquote(s, i + 1, Append(acc, s[i]))

\* the encoder's escaping of one character of a string (HTML-safe, as
\* json.Marshal does by default)
MarshalChar(c) ==
  CASE c = QUOTE -> << BSLASH, QUOTE >>
    [] c = BSLASH -> << BSLASH, BSLASH >>
    [] c = "\n" -> << BSLASH, "n" >>
    [] c = "\r" -> << BSLASH, "r" >>
    [] c = "\t" -> << BSLASH, "t" >>
    [] c = "\f" -> << BSLASH, "u", "0", "0", "0", "c" >>
    [] c = "\\b" -> << BSLASH, "u", "0", "0", "0", "8" >>
    [] c = "<" -> << BSLASH, "u", "0", "0", "3", "c" >>
    [] c = ">" -> << BSLASH, "u", "0", "0", "3", "e" >>
    [] c = "&" -> << BSLASH, "u", "0", "0", "2", "6" >>
    [] OTHER -> << c >>

RECURSIVE MarshalStr(_)
MarshalStr(s) ==
  IF Len(s) = 0 THEN <<>> ELSE MarshalChar(s[1]) \o MarshalStr(Tail(s))

\* json.Marshal of a value
RECURSIVE Marshal(_)
RECURSIVE MarshalElems(_)
RECURSIVE MarshalMembers(_)
Marshal(x) ==
  CASE x.k = "null" -> << "n", "u", "l", "l" >>
    [] x.k = "bool" -> IF x.v THEN << "t", "r", "u", "e" >>
                       ELSE << "f", "a", "l", "s", "e" >>
    [] x.k = "num" -> MarshalNum(x.v)
    [] x.k = "str" -> << QUOTE >> \o MarshalStr(x.v) \o << QUOTE >>
    [] x.k = "arr" -> << "[" >> \o MarshalElems(x.v) \o << "]" >>
    [] x.k = "obj" -> << "{" >> \o MarshalMembers(x.v) \o << "}" >>

MarshalElems(a) ==
  IF Len(a) = 0 THEN <<>>
  ELSE IF Len(a) = 1 THEN Marshal(a[1])
  ELSE Marshal(a[1]) \o << "," >> \o MarshalElems(Tail(a))

MarshalMembers(m) ==
  IF Len(m) = 0 THEN <<>>
  ELSE << QUOTE >> \o MarshalStr(m[1].key) \o << QUOTE, ":" >> \o Marshal(m[1].val)
       \o (IF Len(m) = 1 THEN <<>> ELSE << "," >> \o MarshalMembers(Tail(m)))

(***************************************************************************)
(* encoding/json: json.Unmarshal into `any` (the standard strict decode).  *)
(* A decoding step gives ok, the value and the position after it.          *)
(***************************************************************************)
StdFail == [ok |-> FALSE, val |-> Null, next |-> 0]
StdOk(val, next) == [ok |-> TRUE, val |-> val, next |-> next]

RECURSIVE StdSkip(_, _)
StdSkip(s, i) ==
  IF i <= Len(s) /\ s[i] \in WhiteSpace THEN StdSkip(s, i + 1) ELSE i

\* the position after the digit run that starts at i
RECURSIVE SkipDigits(_, _)
SkipDigits(s, i) ==
  IF i <= Len(s) /\ s[i] \in Digits THEN SkipDigits(s, i + 1) ELSE i

\* a JSON numeral:  -? (0 | [1-9][0-9]*) (. [0-9]+)? ([eE] [+-]? [0-9]+)?
\* with the integer digits at a..b-1, the fraction digits at b+1..c-1
\* (c = b without a fraction) and the exponent digits at d..f-1 (d = c
\* without an exponent)
StdNumVal(pf, f) == IF pf.ok THEN StdOk(pf.val, f) ELSE StdFail

StdNumEnd(s, neg, a, b, c, d, f) ==
  IF d > c /\ f = d THEN StdFail
  ELSE StdNumVal(ParseFloat(neg, SubSeq(s, a, b - 1),
                            IF c > b THEN SubSeq(s, b + 1, c - 1) ELSE <<>>,
                            d > c /\ s[d - 1] = "-",
                            SubSeq(s, d, f - 1)),
                 f)

StdNumExp(s, neg, a, b, c) ==
  IF c = b + 1 THEN StdFail
  ELSE IF c <= Len(s) /\ s[c] \in {"e", "E"}
  THEN IF c + 1 <= Len(s) /\ s[c + 1] \in {"+", "-"}
       THEN StdNumEnd(s, neg, a, b, c, c + 2, SkipDigits(s, c + 2))
       ELSE StdNumEnd(s, neg, a, b, c, c + 1, SkipDigits(s, c + 1))
  ELSE StdNumEnd(s, neg, a, b, c, c, c)

StdNumFrac(s, neg, a, b) ==
  IF ~(b > a /\ (s[a] # "0" \/ b = a + 1)) THEN StdFail
  ELSE IF b <= Len(s) /\ s[b] = "." THEN StdNumExp(s, neg, a, b, SkipDigits(s, b + 1))
  ELSE StdNumExp(s, neg, a, b, b)

StdNumber(s, i) ==
  IF s[i] = "-" THEN StdNumFrac(s, TRUE, i + 1, SkipDigits(s, i + 1))
  ELSE StdNumFrac(s, FALSE, i, SkipDigits(s, i))

StdLiteral(s, i, word, val) ==
  IF i + Len(word) - 1 <= Len(s) /\ SubSeq(s, i, i + Len(word) - 1) = word
  THEN StdOk(val, i + Len(word)) ELSE StdFail

StdString(u) == IF u.ok THEN StdOk(Str(u.str), u.next) ELSE StdFail

RECURSIVE StdValue(_, _)
RECURSIVE StdValueAt(_, _)
RECURSIVE StdArray(_, _)
RECURSIVE StdElems(_, _, _)
RECURSIVE StdElem(_, _, _)
RECURSIVE StdElemNext(_, _, _)
RECURSIVE StdObject(_, _)
RECURSIVE StdMembers(_, _, _)
RECURSIVE StdKey(_, _, _)
RECURSIVE StdColon(_, _, _)
RECURSIVE StdMemberValue(_, _, _, _)
RECURSIVE StdMember(_, _, _, _)
RECURSIVE StdMemberNext(_, _, _)

\* the value that starts (after whitespace) at position i
StdValue(s, i) == StdValueAt(s, StdSkip(s, i))

StdValueAt(s, j) ==
  IF j > Len(s) THEN StdFail
  ELSE CASE s[j] = "[" -> StdArray(s, StdSkip(s, j + 1))
         [] s[j] = "{" -> StdObject(s, StdSkip(s, j + 1))
         [] s[j] = QUOTE -> StdString(Unquote(s, j + 1, <<>>))
         [] s[j] = "t" -> StdLiteral(s, j, << "t", "r", "u", "e" >>, Bool(TRUE))
         [] s[j] = "f" -> StdLiteral(s, j, << "f", "a", "l", "s", "e" >>, Bool(FALSE))
         [] s[j] = "n" -> StdLiteral(s, j, << "n", "u", "l", "l" >>, Null)
         [] s[j] \in Digits \cup {"-"} -> StdNumber(s, j)
         [] OTHER -> StdFail

\* an array after its "[" and whitespace
StdArray(s, n) ==
  IF n <= Len(s) /\ s[n] = "]" THEN StdOk(Arr(<<>>), n + 1)
  ELSE StdElems(s, n, <<>>)

\* the elements of an array from position i (an element is required)
StdElems(s, i, acc) == StdElem(s, acc, StdValue(s, i))

StdElem(s, acc, e) ==
  IF ~e.ok THEN StdFail
  ELSE StdElemNext(s, Append(acc, e.val), StdSkip(s, e.next))

StdElemNext(s, acc, n) ==
  IF n > Len(s) THEN StdFail
  ELSE IF s[n] = "]" THEN StdOk(Arr(acc), n + 1)
  ELSE IF s[n] = "," THEN StdElems(s, n + 1, acc)
  ELSE StdFail

\* an object after its "{" and whitespace
StdObject(s, n) ==
  IF n <= Len(s) /\ s[n] = "}" THEN StdOk(EmptyObj, n + 1)
  ELSE StdMembers(s, n, <<>>)

\* the members of an object from position i (a member is required); a
\* repeated key keeps its last value
StdMembers(s, i, acc) == StdKey(s, acc, StdSkip(s, i))

StdKey(s, acc, j) ==
  IF j <= Len(s) /\ s[j] = QUOTE THEN StdColon(s, acc, Unquote(s, j + 1, <<>>))
  ELSE StdFail

StdColon(s, acc, key) ==
  IF ~key.ok THEN StdFail
  ELSE StdMemberValue(s, acc, key.str, StdSkip(s, key.next))

StdMemberValue(s, acc, k, c) ==
  IF c <= Len(s) /\ s[c] = ":" THEN StdMember(s, acc, k, StdValue(s, c + 1))
  ELSE StdFail

StdMember(s, acc, k, e) ==
  IF ~e.ok THEN StdFail
  ELSE StdMemberNext(s, MapPut(acc, k, e.val), StdSkip(s, e.next))

StdMemberNext(s, acc, n) ==
  IF n > Len(s) THEN StdFail
  ELSE IF s[n] = "}" THEN StdOk(Obj(acc), n + 1)
  ELSE IF s[n] = "," THEN StdMembers(s, n + 1, acc)
  ELSE StdFail

\* the decoded value r must be followed by whitespace only
StdWhole(s, r) ==
  IF r.ok /\ StdSkip(s, r.next) > Len(s) THEN [ok |-> TRUE, val |-> r.val]
  ELSE [ok |-> FALSE, val |-> Null]

\* json.Unmarshal(s, &v) with v of type any: one value, whitespace around it
Unmarshal(s) == StdWhole(s, StdValue(s, 1))

\* json.Valid
Valid(s) == Unmarshal(s).ok

\* a decoded value r stored into a map[string]any: it must be an object
\* (null leaves the map as it is)
StdMap(r) ==
  IF r.ok /\ r.val.k = "obj" THEN r
  ELSE IF r.ok /\ r.val.k = "null" THEN [ok |-> TRUE, val |-> EmptyObj]
  ELSE [ok |-> FALSE, val |-> Null]

\* json.Unmarshal(s, &data) with data of type map[string]any
UnmarshalMap(s) == StdMap(Unmarshal(s))

\* the decoded literal u stored into a string: "" and an error when the
\* literal is malformed or text follows it
StdStr(lit, u) ==
  IF u.ok /\ StdSkip(lit, u.next) > Len(lit) THEN [ok |-> TRUE, str |-> u.str]
  ELSE [ok |-> FALSE, str |-> <<>>]

\* json.Unmarshal(lit, &result) with result of type string, for a text that
\* starts with a quote
UnmarshalString(lit) == StdStr(lit, Unquote(lit, 2, <<>>))

(***************************************************************************)
(* The scalar rules of the recursive parser.  p is the JSONParser (its     *)
(* strict field; onExtraToken only observes and is left out).              *)
(***************************************************************************)
NewJSONParser(strict) == [strict |-> strict]

\* the closing-quote search shared by parseString and containCompleteKey:
\* the position of the first quote after s[0] that no backslash precedes,
\* 0 when s[1:] holds no quote, -1 when every quote follows a backslash
RECURSIVE scanQuote(_, _)
scanQuote(s, end) ==
  IF end > 0 /\ At(s, end - 1) = BSLASH
  THEN IF Index(From(s, end + 1), QUOTE) >= 0
       THEN scanQuote(s, Index(From(s, end + 1), QUOTE) + end + 1)
       ELSE -1
  ELSE end

\* containCompleteKey after its TrimSpace
completeKeyIn(s) == scanQuote(s, Index(From(s, 1), QUOTE) + 1) > 0

\* a variant of containCompleteKey that finds a complete key in every text
containCompleteKeyAlways(s0) == TRUE

containCompleteKey(s0) == completeKeyIn(TrimSpace(s0))

\* the end of parseString: strVal decoded by json.Unmarshal into u, and the
\* text after it
stringResult(u, rest) == Ret(Str(u.str), rest, IF u.ok THEN NoErr ELSE ErrJSON)

\* parseString once its search has set end
stringAt(p, s, end) ==
  IF end <= 0
  THEN IF ~p.strict THEN Ret(Str(From(s, 1)), <<>>, NoErr)
       ELSE Ret(Null, <<>>, ErrIncompleteString)
  ELSE stringResult(UnmarshalString(Upto(s, end + 1)), From(s, end + 1))

\* a variant of parseString that never accepts a string without its closing
\* quote, whatever the mode
parseStringNoPartial(p, s) ==
  stringAt(NewJSONParser(TRUE), s, scanQuote(s, Index(From(s, 1), QUOTE) + 1))

parseString(p, s) == stringAt(p, s, scanQuote(s, Index(From(s, 1), QUOTE) + 1))

\* parseNumber with i at i0 after the sign, i1 after the integer digits, i2
\* after the fraction (i2 = i1 without a "."), i3 after the exponent marker
\* and its sign (i3 = i2 without a marker), i4 after the exponent digits
numberValue(s, i, num) ==
  IF ~num.ok THEN Ret(Null, s, ErrIncompleteNum)
  ELSE Ret(num.val, From(s, i), NoErr)

numberEnd(s, i0, i1, i2, i3, i4) ==
  IF i3 > i2 /\ i4 = i3 THEN Ret(Null, s, ErrIncompleteNum)
  ELSE numberValue(s, i4,
                   ParseFloat(i0 = 1, SubSeq(s, i0 + 1, i1),
                              IF i2 > i1 THEN SubSeq(s, i1 + 2, i2) ELSE <<>>,
                              i3 > i2 /\ At(s, i3 - 1) = "-",
                              SubSeq(s, i3 + 1, i4)))

numberExp(s, i0, i1, i2) ==
  IF ~(i1 > i0 \/ i2 > i1 + 1) THEN Ret(Null, s, ErrIncompleteNum)
  ELSE IF i2 < Len(s) /\ At(s, i2) \in {"e", "E"}
  THEN IF i2 + 1 < Len(s) /\ At(s, i2 + 1) \in {"-", "+"}
       THEN numberEnd(s, i0, i1, i2, i2 + 2, SkipDigits(s, i2 + 3) - 1)
       ELSE numberEnd(s, i0, i1, i2, i2 + 1, SkipDigits(s, i2 + 2) - 1)
  ELSE numberEnd(s, i0, i1, i2, i2, i2)

numberFrac(s, i0, i1) ==
  IF i1 < Len(s) /\ At(s, i1) = "." THEN numberExp(s, i0, i1, SkipDigits(s, i1 + 2) - 1)
  ELSE numberExp(s, i0, i1, i1)

numberInt(s, i0) == numberFrac(s, i0, SkipDigits(s, i0 + 1) - 1)

parseNumber(p, s) == numberInt(s, IF 0 < Len(s) /\ At(s, 0) = "-" THEN 1 ELSE 0)

\* parseTrue with line 474 returning s in place of s[4:]
parseTrueNoAdvance(p, s) ==
  IF HasPrefix(s, << "t", "r", "u", "e" >>) THEN Ret(Bool(TRUE), s, NoErr)
  ELSE Ret(Null, s, ErrUnexpectedToken)

parseTrue(p, s) ==
  IF HasPrefix(s, << "t", "r", "u", "e" >>) THEN Ret(Bool(TRUE), From(s, 4), NoErr)
  ELSE Ret(Null, s, ErrUnexpectedToken)

parseFalse(p, s) ==
  IF HasPrefix(s, << "f", "a", "l", "s", "e" >>) THEN Ret(Bool(FALSE), From(s, 5), NoErr)
  ELSE Ret(Null, s, ErrUnexpectedToken)

parseNull(p, s) ==
  IF HasPrefix(s, << "n", "u", "l", "l" >>) THEN Ret(Null, From(s, 4), NoErr)
  ELSE Ret(Null, s, ErrUnexpectedToken)

(***************************************************************************)
(* The dispatcher and the container rules.  A loop gives the elements or   *)
(* members collected (acc), the text left (s) and the error (err).         *)
(***************************************************************************)
\* no element at all gives nil
nilIfEmpty(acc) == IF Len(acc) = 0 THEN Null ELSE Arr(acc)

\* the post-loop part of parseArray: a trailing empty object is dropped
arrayResult(acc) ==
  IF Len(acc) > 0 /\ acc[Len(acc)] = EmptyObj
  THEN nilIfEmpty(SubSeq(acc, 1, Len(acc) - 1))
  ELSE nilIfEmpty(acc)

arrayReturn(l) == Ret(arrayResult(l.acc), l.s, l.err)

objectReturn(l) == Ret(Obj(l.acc), l.s, l.err)

\* after an element or a member: s = TrimSpace(remaining), and one "," is
\* skipped
skipComma(s) == IF HasPrefix(s, << "," >>) THEN TrimSpace(From(s, 1)) ELSE s

afterValue(remaining) == skipComma(TrimSpace(remaining))

RECURSIVE parseAny(_, _)
RECURSIVE parseSpace(_, _)
RECURSIVE parseArray(_, _)
RECURSIVE parseObject(_, _)
RECURSIVE arrayLoop(_, _, _)
RECURSIVE arrayElem(_, _, _)
RECURSIVE objectLoop(_, _, _)
RECURSIVE objectKey(_, _, _)
RECURSIVE objectColon(_, _, _, _)
RECURSIVE objectValue(_, _, _, _)
RECURSIVE objectMember(_, _, _, _)

\* p.parsers[rune(s[0])]
parseAny(p, s) ==
  IF Len(s) = 0 THEN Ret(Null, <<>>, NoErr)
  ELSE CASE s[1] \in WhiteSpace -> parseSpace(p, s)
         [] s[1] = "[" -> parseArray(p, s)
         [] s[1] = "{" -> parseObject(p, s)
         [] s[1] = QUOTE -> parseString(p, s)
         [] s[1] = "t" -> parseTrue(p, s)
         [] s[1] = "f" -> parseFalse(p, s)
         [] s[1] = "n" -> parseNull(p, s)
         [] s[1] \in Digits \cup {".", "-"} -> parseNumber(p, s)
         [] OTHER -> Ret(Null, s, ErrUnexpectedToken)

parseSpace(p, s) == parseAny(p, TrimSpace(s))

parseArray(p, s) == arrayReturn(arrayLoop(p, TrimSpace(From(s, 1)), <<>>))

parseObject(p, s) == objectReturn(objectLoop(p, TrimSpace(From(s, 1)), <<>>))

\* the for-loop of parseArray from its condition, with the elements so far
arrayLoop(p, s, acc) ==
  IF Len(s) = 0 THEN [acc |-> acc, s |-> s, err |-> NoErr]
  ELSE IF s[1] = "]" THEN [acc |-> acc, s |-> From(s, 1), err |-> NoErr]
  ELSE arrayElem(p, acc, parseAny(p, s))

\* the loop body after  res, remaining, err = p.parseAny(s)
arrayElem(p, acc, r) ==
  IF r.err # NoErr
  THEN [acc |-> acc, s |-> TrimSpace(r.rest),
        err |-> IF r.err = ErrIncompleteString THEN NoErr ELSE r.err]
  ELSE arrayLoop(p, afterValue(r.rest), Append(acc, r.val))

\* the for-loop of parseObject from its condition, with the members so far
objectLoop(p, s, acc) ==
  IF Len(s) = 0 THEN [acc |-> acc, s |-> s, err |-> NoErr]
  ELSE IF s[1] = "}" THEN [acc |-> acc, s |-> From(s, 1), err |-> NoErr]
  ELSE IF ~p.strict /\ ~containCompleteKey(s) THEN [acc |-> acc, s |-> s, err |-> NoErr]
  ELSE objectKey(p, acc, parseAny(p, s))

\* the loop body after  key, remaining, err = p.parseAny(s)
objectKey(p, acc, key) ==
  IF key.err # NoErr
  THEN [acc |-> acc, s |-> TrimSpace(key.rest),
        err |-> IF key.err = ErrIncompleteString THEN NoErr ELSE key.err]
  ELSE IF key.val.k # "str"
  THEN [acc |-> acc, s |-> TrimSpace(key.rest), err |-> ErrUnexpectedToken]
  ELSE objectColon(p, acc, key.val.v, TrimSpace(key.rest))

\* the loop body after  s = strings.TrimSpace(remaining)  behind the key
objectColon(p, acc, keyStr, s) ==
  IF Len(s) = 0 \/ s[1] = "}"
  THEN [acc |-> MapPut(acc, keyStr, Null), s |-> s, err |-> NoErr]
  ELSE IF s[1] # ":"
  THEN [acc |-> acc, s |-> s, err |-> ErrUnexpectedToken]
  ELSE objectValue(p, acc, keyStr, TrimSpace(From(s, 1)))

\* the loop body after the ":" is skipped
objectValue(p, acc, keyStr, s) ==
  IF Len(s) = 0 \/ s[1] = "}"
  THEN [acc |-> MapPut(acc, keyStr, Null), s |-> s, err |-> NoErr]
  ELSE objectMember(p, acc, keyStr, parseAny(p, s))

\* the loop body after  value, remaining, err = p.parseAny(s)
objectMember(p, acc, keyStr, value) ==
  IF value.err = ErrIncompleteString
  THEN [acc |-> MapPut(acc, keyStr, Null), s |-> TrimSpace(value.rest), err |-> NoErr]
  ELSE IF value.err # NoErr
  THEN [acc |-> acc, s |-> TrimSpace(value.rest), err |-> value.err]
  ELSE objectLoop(p, afterValue(value.rest), MapPut(acc, keyStr, value.val))

(***************************************************************************)
(* The loops of the container rules, one iteration at a time.  l holds the *)
(* locals of the rule: the text left (s), the elements or members          *)
(* collected (acc), err, where it stands (pc: "loop" at the loop's         *)
(* condition, "done" behind the loop), and the iterations that ran to the  *)
(* end of the loop body (n).                                               *)
(***************************************************************************)
\* one pass from the condition of parseArray's loop, r being what parseAny
\* returned for the element
arrayNext(l, r) ==
  IF r.err # NoErr
  THEN [l EXCEPT !.s = TrimSpace(r.rest),
                 !.err = IF r.err = ErrIncompleteString THEN NoErr ELSE r.err,
                 !.pc = "done"]
  ELSE [l EXCEPT !.acc = Append(l.acc, r.val),
                 !.s = afterValue(r.rest),
                 !.n = l.n + 1]

arrayStep(p, l) ==
  IF Len(l.s) = 0 THEN [l EXCEPT !.pc = "done"]
  ELSE IF l.s[1] = "]" THEN [l EXCEPT !.s = From(l.s, 1), !.pc = "done"]
  ELSE arrayNext(l, parseAny(p, l.s))

\* one pass from the condition of parseObject's loop: value is what parseAny
\* returned for the member's value
objectMemberStep(l, keyStr, value) ==
  IF value.err = ErrIncompleteString
  THEN [l EXCEPT !.acc = MapPut(l.acc, keyStr, Null),
                 !.s = TrimSpace(value.rest),
                 !.pc = "done"]
  ELSE IF value.err # NoErr
  THEN [l EXCEPT !.s = TrimSpace(value.rest), !.err = value.err, !.pc = "done"]
  ELSE [l EXCEPT !.acc = MapPut(l.acc, keyStr, value.val),
                 !.s = afterValue(value.rest),
                 !.n = l.n + 1]

\* s is the text behind the ":"
objectValueStep(p, l, keyStr, s) ==
  IF Len(s) = 0 \/ s[1] = "}"
  THEN [l EXCEPT !.acc = MapPut(l.acc, keyStr, Null), !.s = s, !.pc = "done"]
  ELSE objectMemberStep(l, keyStr, parseAny(p, s))

\* s is the text behind the key
objectColonStep(p, l, keyStr, s) ==
  IF Len(s) = 0 \/ s[1] = "}"
  THEN [l EXCEPT !.acc = MapPut(l.acc, keyStr, Null), !.s = s, !.pc = "done"]
  ELSE IF s[1] # ":"
  THEN [l EXCEPT !.s = s, !.err = ErrUnexpectedToken, !.pc = "done"]
  ELSE objectValueStep(p, l, keyStr, TrimSpace(From(s, 1)))

\* key is what parseAny returned for the key
objectKeyStep(p, l, key) ==
  IF key.err # NoErr
  THEN [l EXCEPT !.s = TrimSpace(key.rest),
                 !.err = IF key.err = ErrIncompleteString THEN NoErr ELSE key.err,
                 !.pc = "done"]
  ELSE IF key.val.k # "str"
  THEN [l EXCEPT !.s = TrimSpace(key.rest), !.err = ErrUnexpectedToken, !.pc = "done"]
  ELSE objectColonStep(p, l, key.val.v, TrimSpace(key.rest))

objectStep(p, l) ==
  IF Len(l.s) = 0 THEN [l EXCEPT !.pc = "done"]
  ELSE IF l.s[1] = "}" THEN [l EXCEPT !.s = From(l.s, 1), !.pc = "done"]
  ELSE IF ~p.strict /\ ~containCompleteKey(l.s) THEN [l EXCEPT !.pc = "done"]
  ELSE objectKeyStep(p, l, parseAny(p, l.s))

(***************************************************************************)
(* The top-level entries                                                   *)
(***************************************************************************)
\* the two guards that open parse: empty input, or a first character that
\* is neither "{" nor "["
rejectsAtTop(s) ==
  Len(s) = 0 \/ ~(HasPrefix(s, << "{" >>) \/ HasPrefix(s, << "[" >>))

\* the end of parse, after  data, reminding, err := p.parseAny(s)
parseReturn(r) ==
  IF r.err # NoErr THEN [val |-> Null, err |-> r.err]
  ELSE [val |-> r.val, err |-> NoErr]

\* the fast accept of parse: data is the text decoded as a map
parseAccept(p, s, data) ==
  IF data.ok THEN [val |-> data.val, err |-> NoErr]
  ELSE parseReturn(parseAny(p, s))

parse(p, s) ==
  IF rejectsAtTop(s) THEN [val |-> Null, err |-> ErrUnexpectedToken]
  ELSE IF HasSuffix(s, << "}" >>) \/ HasSuffix(s, << "]" >>)
  THEN parseAccept(p, s, UnmarshalMap(s))
  ELSE parseReturn(parseAny(p, s))

\* EnsureJSON after  data, err := p.parse(s)
ensureReturn(d) ==
  IF d.err # NoErr THEN [ret |-> <<>>, err |-> d.err]
  ELSE [ret |-> Marshal(d.val), err |-> NoErr]

EnsureJSON(p, s) == ensureReturn(parse(p, s))

getReverseDelim(char) ==
  CASE char = "{" -> "}"
    [] char = "}" -> "{"
    [] char = "[" -> "]"
    [] char = "]" -> "["
    [] OTHER -> ""

\* the length of the run of closers that ends s
RECURSIVE closerRun(_)
closerRun(s) ==
  IF Len(s) > 0 /\ s[Len(s)] \in Closers
  THEN 1 + closerRun(SubSeq(s, 1, Len(s) - 1)) ELSE 0

\* the places of s where pat is followed by closers only, and by one at
\* least, up to the end
matches(s, pat, run) ==
  { i \in 1..Len(s) :
      /\ i + Len(pat) <= Len(s)
      /\ SubSeq(s, i, i + Len(pat) - 1) = pat
      /\ run >= Len(s) - (i + Len(pat) - 1) }

\* pat rewritten to repl at the leftmost of the places starts
replaceAt(s, pat, repl, starts) ==
  IF starts = {} THEN s
  ELSE SubSeq(s, 1, (CHOOSE x \in starts : \A y \in starts : x <= y) - 1)
       \o repl
       \o SubSeq(s, (CHOOSE x \in starts : \A y \in starts : x <= y) + Len(pat), Len(s))

\* ReplaceAllStringFunc with a regexp  pat[\]\}]+$ : pat becomes repl where
\* the regexp matches
replaceBeforeClosers(s, pat, repl) ==
  replaceAt(s, pat, repl, matches(s, pat, closerRun(s)))

\* the deferred pass over a result returned without error: res[0], res[1]
cleanup(ret) ==
  replaceBeforeClosers(
    replaceBeforeClosers(ret, << ",", "{", "}" >>, <<>>),
    << "[", "{", "}", "]" >>, << "n", "u", "l", "l" >>)

\* the scan of FastEnsureJSON from position i: the positions of the open
\* delimiters, or ok = FALSE at a closer that matches none
RECURSIVE scanDelims(_, _, _, _)
RECURSIVE scanChar(_, _, _, _)
scanDelims(src, i, leftDelimIndexes, isInQuotes) ==
  IF i >= Len(src) THEN [ok |-> TRUE, stack |-> leftDelimIndexes]
  ELSE scanChar(src, i, leftDelimIndexes,
                IF At(src, i) = QUOTE /\ (i = 0 \/ At(src, i - 1) # BSLASH)
                THEN ~isInQuotes ELSE isInQuotes)

\* the loop body once isInQuotes is set for the character at i
scanChar(src, i, leftDelimIndexes, isInQuotes) ==
  IF isInQuotes THEN scanDelims(src, i + 1, leftDelimIndexes, isInQuotes)
  ELSE IF At(src, i) \in {"{", "["}
  THEN scanDelims(src, i + 1, Append(leftDelimIndexes, i), isInQuotes)
  ELSE IF At(src, i) \in {"}", "]"}
  THEN IF \/ Len(leftDelimIndexes) = 0
          \/ At(src, leftDelimIndexes[Len(leftDelimIndexes)]) # getReverseDelim(At(src, i))
       THEN [ok |-> FALSE, stack |-> <<>>]
       ELSE scanDelims(src, i + 1,
                       SubSeq(leftDelimIndexes, 1, Len(leftDelimIndexes) - 1),
                       isInQuotes)
  ELSE scanDelims(src, i + 1, leftDelimIndexes, isInQuotes)

\* the closers of the openers at the given positions, innermost first
RECURSIVE closeAll(_, _)
closeAll(src, idx) ==
  IF Len(idx) = 0 THEN <<>>
  ELSE << getReverseDelim(At(src, idx[Len(idx)])) >>
       \o closeAll(src, SubSeq(idx, 1, Len(idx) - 1))

\* FastEnsureJSON from the closing of the openers left, and the deferred pass
fastClose(src, leftDelimIndexes) ==
  [ret |-> cleanup(src \o closeAll(src, leftDelimIndexes)), err |-> NoErr]

\* FastEnsureJSON after  jsonData, err := p.EnsureJSON(src[leftDelimIndexes[start]:])
fastSplice(s, leftDelimIndexes, jsonData) ==
  IF jsonData.err # NoErr THEN [ret |-> <<>>, err |-> jsonData.err]
  ELSE fastClose(Upto(s, leftDelimIndexes[Len(leftDelimIndexes)]) \o jsonData.ret,
                 SubSeq(leftDelimIndexes, 1, Len(leftDelimIndexes) - 1))

\* FastEnsureJSON after its scan
fastScanned(p, s, sc) ==
  IF ~sc.ok THEN [ret |-> <<>>, err |-> ErrUnexpectedToken]
  ELSE IF Len(sc.stack) = 0 THEN [ret |-> cleanup(s), err |-> NoErr]
  ELSE fastSplice(s, sc.stack, EnsureJSON(p, From(s, sc.stack[Len(sc.stack)])))

FastEnsureJSON(p, s) ==
  IF Len(s) = 0 THEN [ret |-> <<>>, err |-> ErrUnexpectedToken]
  ELSE fastScanned(p, s, scanDelims(s, 0, <<>>, FALSE))

(***************************************************************************)
(* The producer of the input: a JSON document whose top level is an object *)
(* or an array, written one character at a time (the growing prefixes the  *)
(* tests feed to the parser).  doc is the writer's place in the document:  *)
(*   st   what has just been written / what may come next                  *)
(*   stk  the containers that are open, outermost first, under a "top"     *)
(*        frame; a frame holds the elements or members written in full     *)
(*        (acc) and, in an object, the key whose value is being written    *)
(*   tok  the characters of the string, numeral or literal being written   *)
(*   n    characters written in the current string; hex digits still due   *)
(*   bs   "none" until a string literal is closed right after a backslash  *)
(*        (an escaped one), "closed" from then on until the next quote is  *)
(*        written, "met" after that                                        *)
(***************************************************************************)
MaxLen == 6
MaxStrLen == 2

Alphabet ==
  {"{", "}", "[", "]", ",", ":", QUOTE, BSLASH, " ", "1", "-", ".", "e", "t", "r", "u"}

Frame(kind, acc, key) == [kind |-> kind, acc |-> acc, key |-> key]
Doc(st, stk, tok, n, bs) == [st |-> st, stk |-> stk, tok |-> tok, n |-> n, bs |-> bs]
DocStart == Doc("top", << Frame("top", <<>>, Null) >>, <<>>, 0, "none")
Reject == Doc("reject", <<>>, <<>>, 0, "none")

Top(stk) == stk[Len(stk)]
Pop(stk) == SubSeq(stk, 1, Len(stk) - 1)

\* the value v has been written in full inside the innermost open container
AddValue(stk, v) ==
  LET f == Top(stk) IN
  Append(Pop(stk),
         IF f.kind = "{" THEN Frame("{", MapPut(f.acc, f.key.v, v), Null)
         ELSE Frame(f.kind, Append(f.acc, v), Null))

\* the writer's place once a value has ended
AfterValue(stk, bs) == Doc(IF Len(stk) = 1 THEN "end" ELSE "after", stk, <<>>, 0, bs)

\* the innermost open container is closed
Close(stk, bs) ==
  LET f == Top(stk) IN
  AfterValue(AddValue(Pop(stk), IF f.kind = "{" THEN Obj(f.acc) ELSE Arr(f.acc)), bs)

\* c where a value may start
StartValue(d, c) ==
  CASE c = "[" -> Doc("arr0", Append(d.stk, Frame("[", <<>>, Null)), <<>>, 0, d.bs)
    [] c = "{" -> Doc("obj0", Append(d.stk, Frame("{", <<>>, Null)), <<>>, 0, d.bs)
    [] c = QUOTE -> Doc("str", d.stk, << c >>, 0, d.bs)
    [] c \in {"t", "f", "n"} -> Doc("lit", d.stk, << c >>, 0, d.bs)
    [] c = "-" -> Doc("minus", d.stk, << c >>, 0, d.bs)
    [] c = "0" -> Doc("zero", d.stk, << c >>, 0, d.bs)
    [] c \in Digits -> Doc("int", d.stk, << c >>, 0, d.bs)
    [] OTHER -> Reject

\* c after a value that has ended, inside stk: a separator, a closer or
\* whitespace
Separator(stk, c, bs) ==
  CASE c \in WhiteSpace -> Doc("after", stk, <<>>, 0, bs)
    [] c = "," /\ Top(stk).kind = "[" -> Doc("elem", stk, <<>>, 0, bs)
    [] c = "," /\ Top(stk).kind = "{" -> Doc("member", stk, <<>>, 0, bs)
    [] c = "]" /\ Top(stk).kind = "[" -> Close(stk, bs)
    [] c = "}" /\ Top(stk).kind = "{" -> Close(stk, bs)
    [] OTHER -> Reject

\* c after the last character of a numeral: the numeral ends here.  The
\* writer writes no numeral outside the range of a float64.
EndNumberAs(d, c, num) ==
  IF ~num.ok THEN Reject ELSE Separator(AddValue(d.stk, num.val), c, d.bs)

EndNumber(d, c) == EndNumberAs(d, c, Unmarshal(d.tok))

\* the string literal that decodes to str is closed, bs as it then is
EndString(d, str, bs) ==
  IF d.st = "key"
  THEN Doc("colon", Append(Pop(d.stk), Frame("{", Top(d.stk).acc, str)), <<>>, 0, bs)
  ELSE AfterValue(AddValue(d.stk, str), bs)

\* inside a string (st = "key" or "str"): the next character
InString(d, c) ==
  IF c = QUOTE
  THEN EndString(d, Str(UnmarshalString(Append(d.tok, c)).str),
                 IF d.bs = "none" /\ d.tok[Len(d.tok)] = BSLASH THEN "closed" ELSE d.bs)
  ELSE IF d.n >= MaxStrLen \/ c \in ControlChars THEN Reject
  ELSE IF c = BSLASH THEN Doc(d.st \o "-esc", d.stk, Append(d.tok, c), d.n + 1, d.bs)
  ELSE Doc(d.st, d.stk, Append(d.tok, c), d.n + 1, d.bs)

Literals ==
  { << "t", "r", "u", "e" >>, << "f", "a", "l", "s", "e" >>, << "n", "u", "l", "l" >> }

\* the writer's place after writing c by the JSON grammar, Reject when the
\* grammar forbids c
Grammar(d, c) ==
  LET st == d.st
      stk == d.stk
      same == c \in WhiteSpace
      tok == Append(d.tok, c)
  IN
  CASE st = "top" ->
         IF same THEN d
         ELSE IF c \in {"{", "["} THEN StartValue(d, c) ELSE Reject
    [] st = "arr0" ->
         IF same THEN d
         ELSE IF c = "]" THEN Close(stk, d.bs) ELSE StartValue(d, c)
    [] st \in {"elem", "value"} -> IF same THEN d ELSE StartValue(d, c)
    [] st = "obj0" ->
         IF same THEN d
         ELSE IF c = "}" THEN Close(stk, d.bs)
         ELSE IF c = QUOTE THEN Doc("key", stk, << c >>, 0, d.bs) ELSE Reject
    [] st = "member" ->
         IF same THEN d
         ELSE IF c = QUOTE THEN Doc("key", stk, << c >>, 0, d.bs) ELSE Reject
    [] st = "colon" ->
         IF same THEN d
         ELSE IF c = ":" THEN Doc("value", stk, <<>>, 0, d.bs) ELSE Reject
    [] st \in {"key", "str"} -> InString(d, c)
    [] st \in {"key-esc", "str-esc"} ->
         LET back == IF st = "key-esc" THEN "key" ELSE "str" IN
         IF c = "u" THEN Doc(back \o "-hex", stk, tok, 4, d.bs)
         ELSE IF EscapeChar(c) # "" THEN Doc(back, stk, tok, d.n + 1, d.bs)
         ELSE Reject
    [] st \in {"key-hex", "str-hex"} ->
         LET back == IF st = "key-hex" THEN "key" ELSE "str" IN
         IF c \notin HexDigits THEN Reject
         ELSE IF d.n = 1 THEN Doc(back, stk, tok, MaxStrLen, d.bs)
         ELSE Doc(st, stk, tok, d.n - 1, d.bs)
    [] st = "lit" ->
         IF tok \in Literals THEN AfterValue(AddValue(stk, Unmarshal(tok).val), d.bs)
         ELSE IF \E w \in Literals : HasPrefix(w, tok) THEN Doc("lit", stk, tok, 0, d.bs)
         ELSE Reject
    [] st = "minus" ->
         IF c = "0" THEN Doc("zero", stk, tok, 0, d.bs)
         ELSE IF c \in Digits THEN Doc("int", stk, tok, 0, d.bs) ELSE Reject
    [] st = "zero" ->
         IF c = "." THEN Doc("dot", stk, tok, 0, d.bs)
         ELSE IF c \in {"e", "E"} THEN Doc("exp", stk, tok, 0, d.bs)
         ELSE EndNumber(d, c)
    [] st = "int" ->
         IF c \in Digits THEN Doc("int", stk, tok, 0, d.bs)
         ELSE IF c = "." THEN Doc("dot", stk, tok, 0, d.bs)
         ELSE IF c \in {"e", "E"} THEN Doc("exp", stk, tok, 0, d.bs)
         ELSE EndNumber(d, c)
    [] st = "dot" -> IF c \in Digits THEN Doc("frac", stk, tok, 0, d.bs) ELSE Reject
    [] st = "frac" ->
         IF c \in Digits THEN Doc("frac", stk, tok, 0, d.bs)
         ELSE IF c \in {"e", "E"} THEN Doc("exp", stk, tok, 0, d.bs)
         ELSE EndNumber(d, c)
    [] st = "exp" ->
         IF c \in {"+", "-"} THEN Doc("expsign", stk, tok, 0, d.bs)
         ELSE IF c \in Digits THEN Doc("expdigits", stk, tok, 0, d.bs) ELSE Reject
    [] st = "expsign" ->
         IF c \in Digits THEN Doc("expdigits", stk, tok, 0, d.bs) ELSE Reject
    [] st = "expdigits" ->
         IF c \in Digits THEN Doc("expdigits", stk, tok, 0, d.bs) ELSE EndNumber(d, c)
    [] st = "after" -> Separator(stk, c, d.bs)
    [] OTHER -> Reject

\* the writer's place after writing c
Met(d, c, g) ==
  IF g # Reject /\ d.bs = "closed" /\ c = QUOTE THEN [g EXCEPT !.bs = "met"] ELSE g

Step(d, c) == Met(d, c, Grammar(d, c))

\* the writer's place after writing the text s from place d
RECURSIVE Steps(_, _)
Steps(d, s) == IF Len(s) = 0 THEN d ELSE Steps(Step(d, s[1]), Tail(s))

(***************************************************************************)
(* State                                                                   *)
(***************************************************************************)
VARIABLES
  p,       \* the JSONParser
  text,    \* the input written so far
  doc,     \* the writer's place in the document
  ensured, \* what EnsureJSON(text) returned, NotCalled before the call
  fast,    \* what FastEnsureJSON(text) returned, NotCalled before the call
  run      \* a rule called on its own (as the tests do): its input, where it
           \* stands and what it returned; NotRun before the call

vars == << p, text, doc, ensured, fast, run >>

NotCalled == [ret |-> <<>>, err |-> "not called"]
NotRun == [op |-> "none"]

Init ==
  /\ p \in {NewJSONParser(strict) : strict \in BOOLEAN}
  /\ text = <<>>
  /\ doc = DocStart
  /\ ensured = NotCalled
  /\ fast = NotCalled
  /\ run = NotRun

\* the producer writes the next character of a valid document
Write ==
  \E c \in Alphabet :
    /\ Len(text) < MaxLen
    /\ Step(doc, c) # Reject
    /\ text' = Append(text, c)
    /\ doc' = Step(doc, c)
    /\ ensured' = NotCalled
    /\ fast' = NotCalled
    /\ UNCHANGED << p, run >>

\* the consumer calls p.EnsureJSON(text)
CallEnsureJSON ==
  /\ ensured = NotCalled
  /\ ensured' = EnsureJSON(p, text)
  /\ UNCHANGED << p, text, doc, fast, run >>

\* the consumer calls p.FastEnsureJSON(text)
CallFastEnsureJSON ==
  /\ fast = NotCalled
  /\ fast' = FastEnsureJSON(p, text)
  /\ UNCHANGED << p, text, doc, ensured, run >>

Next == Write \/ CallEnsureJSON \/ CallFastEnsureJSON

Spec == Init /\ [][Next]_vars

(***************************************************************************)
(* Any text at all as the input: the calls on texts that no writer of JSON *)
(* produced (the tests call EnsureJSON on "" and on "1").                  *)
(***************************************************************************)
MaxAnyLen == 3

\* some character is appended to the input, whatever the JSON grammar says
Type ==
  \E c \in Alphabet :
    /\ Len(text) < MaxAnyLen
    /\ text' = Append(text, c)
    /\ ensured' = NotCalled
    /\ fast' = NotCalled
    /\ UNCHANGED << p, doc, run >>

NextAny == Type \/ CallEnsureJSON \/ CallFastEnsureJSON

SpecAny == Init /\ [][NextAny]_vars

(***************************************************************************)
(* Longer inputs: the writer continues one of a few documents already      *)
(* begun, and may break off with a token that is no truncation, as the     *)
(* inputs of TestEnsureJson do (abc for an element, 123 for a key, a comma *)
(* for the colon).                                                         *)
(***************************************************************************)
MaxMore == 5

Seeds ==
  { << "{" >>,
    << "[" >>,
    << "{", QUOTE, "b", QUOTE, ":", "[", "]", "," >>,
    << "{", QUOTE, "b", QUOTE, ":", QUOTE, BSLASH, BSLASH, QUOTE, "," >> }

InitSeeded ==
  /\ p \in {NewJSONParser(strict) : strict \in BOOLEAN}
  /\ text \in Seeds
  /\ doc = Steps(DocStart, text)
  /\ ensured = NotCalled
  /\ fast = NotCalled
  /\ run = NotRun

\* the producer writes the next character of a valid document
WriteMore ==
  \E c \in Alphabet :
    /\ \E seed \in Seeds : HasPrefix(text, seed) /\ Len(text) < Len(seed) + MaxMore
    /\ Step(doc, c) # Reject
    /\ text' = Append(text, c)
    /\ doc' = Step(doc, c)
    /\ ensured' = NotCalled
    /\ UNCHANGED << p, fast, run >>

\* the tokens that are no truncation, by the place where they are written
ElemGarbage == { << "a" >>, << "," >>, << ":" >>, << "}" >> }
KeyGarbage == { << "a" >>, << "," >>, << "1", "2", "3" >> }
ColonGarbage == { << "," >>, << "a" >>, << "1" >> }

Garbage(st) ==
  CASE st \in {"arr0", "elem"} -> ElemGarbage
    [] st \in {"obj0", "member"} -> KeyGarbage
    [] st = "colon" -> ColonGarbage
    [] OTHER -> {}

BadPlace(st) ==
  CASE st \in {"arr0", "elem"} -> "bad-elem"
    [] st \in {"obj0", "member"} -> "bad-key"
    [] OTHER -> "bad-colon"

BadPlaces == {"bad-elem", "bad-key", "bad-colon"}

\* the producer writes a token that is no truncation where an element, a
\* member key or a colon is due, and stops
Corrupt ==
  \E g \in Garbage(doc.st) :
    /\ text' = text \o g
    /\ doc' = [doc EXCEPT !.st = BadPlace(doc.st), !.tok = g]
    /\ ensured' = NotCalled
    /\ UNCHANGED << p, fast, run >>

NextSeeded == WriteMore \/ Corrupt \/ CallEnsureJSON

SpecSeeded == InitSeeded /\ [][NextSeeded]_vars

(***************************************************************************)
(* The string rule called on its own, as TestParseString does, on any text *)
(* over a few characters: quotes, backslashes, an escape letter and what   *)
(* may follow a literal.                                                   *)
(***************************************************************************)
MaxStringLen == 6

StringAlphabet == {QUOTE, BSLASH, "n", "1", ",", " "}

\* some character is appended to the input of the rule
TypeString ==
  \E c \in StringAlphabet :
    /\ run = NotRun
    /\ Len(text) < MaxStringLen
    /\ text' = Append(text, c)
    /\ UNCHANGED << p, doc, ensured, fast, run >>

\* obj, remaining, err := parser.parseString(input), on a text that opens
\* with a quote (the dispatcher sends no other text to the rule)
CallParseString ==
  /\ run = NotRun
  /\ HasPrefix(text, << QUOTE >>)
  /\ run' = [op |-> "parseString", input |-> text, ret |-> parseString(p, text)]
  /\ UNCHANGED << p, text, doc, ensured, fast >>

NextString == TypeString \/ CallParseString

SpecString == Init /\ [][NextString]_vars

(***************************************************************************)
(* The container rules called on their own, as TestParseArray does, and    *)
(* run one loop iteration at a time.  The input is what stands in the text *)
(* from one of its openers on, which is what the dispatcher hands to the   *)
(* rule for a container at that place.  run holds the rule's locals.       *)
(***************************************************************************)
Loops == {"parseArray", "parseObject"}

\* p.parseArray(input) or p.parseObject(input) is called and stands at the
\* condition of its loop
BeginLoop ==
  \E i \in 0..(Len(text) - 1) :
    /\ run = NotRun
    /\ At(text, i) \in {"[", "{"}
    /\ run' = [op |-> IF At(text, i) = "[" THEN "parseArray" ELSE "parseObject",
               input |-> From(text, i),
               s |-> TrimSpace(From(text, i + 1)),
               acc |-> <<>>,
               err |-> NoErr,
               pc |-> "loop",
               n |-> 0]
    /\ UNCHANGED << p, text, doc, ensured, fast >>

\* the loop's condition is tested and, when it holds, its body runs
Iterate ==
  /\ run.op \in Loops
  /\ run.pc = "loop"
  /\ run' = IF run.op = "parseArray" THEN arrayStep(p, run) ELSE objectStep(p, run)
  /\ UNCHANGED << p, text, doc, ensured, fast >>

\* the input is written before the rule is called on it
NextLoop ==
  \/ run = NotRun /\ Write
  \/ run = NotRun /\ Corrupt
  \/ BeginLoop
  \/ Iterate

\* Iterate can be taken: the rule stands at the condition of its loop
Looping == run.op \in Loops /\ run.pc = "loop"

\* the goroutine that called the rule keeps running it: weak fairness of
\* Iterate, WF_vars(Iterate), written out with Looping for ENABLED
\* <<Iterate>>_vars (an Iterate step always changes run.pc or run.n)
SpecLoop ==
  Init /\ [][NextLoop]_vars /\ ([]<>(~Looping) \/ []<><<Iterate>>_vars)

(***************************************************************************)
(* What the properties below speak of                                      *)
(***************************************************************************)
Called(r) == r # NotCalled

\* the value a returned text decodes to
Decoded(r) == Unmarshal(r.ret).val

\* the input opens with its top-level bracket
Bracketed == Len(text) > 0 /\ text[1] \in {"{", "["}

\* the writer is inside a numeral
NumeralPlaces ==
  {"minus", "zero", "int", "dot", "frac", "exp", "expsign", "expdigits"}

\* the writer is inside a string that is a value (of a member or an element)
StringPlaces == {"str", "str-esc", "str-hex"}

\* the text written so far is a whole document
Closed == doc.st = "end"

\* the result r stands for the open container of frame i and what is inside:
\* every element or member written in full is there with its value, and at
\* most one more, which is null, the lenient text of a string being written,
\* or what stands for the container being written inside; an array with
\* nothing written in full may come out as null
RECURSIVE Holds(_, _)
RECURSIVE HoldsLast(_, _)
Holds(r, i) ==
  IF doc.stk[i].kind = "["
  THEN \/ r = Null /\ doc.stk[i].acc = <<>>
       \/ r = Arr(doc.stk[i].acc)
       \/ /\ r.k = "arr"
          /\ Len(r.v) = Len(doc.stk[i].acc) + 1
          /\ SubSeq(r.v, 1, Len(doc.stk[i].acc)) = doc.stk[i].acc
          /\ HoldsLast(r.v[Len(r.v)], i)
  ELSE /\ r.k = "obj"
       /\ \/ r.v = doc.stk[i].acc
          \/ /\ doc.stk[i].key # Null
             /\ MapHas(r.v, doc.stk[i].key.v)
             /\ r.v = MapPut(doc.stk[i].acc, doc.stk[i].key.v, MapGet(r.v, doc.stk[i].key.v))
             /\ HoldsLast(MapGet(r.v, doc.stk[i].key.v), i)

HoldsLast(v, i) ==
  \/ v = Null
  \/ i = Len(doc.stk) /\ doc.st \in StringPlaces /\ v.k = "str"
  \/ i < Len(doc.stk) /\ Holds(v, i + 1)

(***************************************************************************)
(* C1.  For every non-empty prefix of a valid document, written from its   *)
(* opening bracket, and in both modes, FastEnsureJSON and EnsureJSON both  *)
(* fail or both succeed, and when they succeed their outputs decode to     *)
(* equal values.                                                           *)
(***************************************************************************)
C1_FastPreciseEquivalence ==
  (Bracketed /\ Called(ensured) /\ Called(fast)) =>
    /\ (ensured.err = NoErr) <=> (fast.err = NoErr)
    /\ ensured.err = NoErr => Unmarshal(fast.ret) = Unmarshal(ensured.ret)

(***************************************************************************)
(* C2.  For any input text and either mode, a text that EnsureJSON or      *)
(* FastEnsureJSON returns without error is a valid JSON document.          *)
(***************************************************************************)
C2_OutputValidity ==
  /\ (Called(ensured) /\ ensured.err = NoErr) => Valid(ensured.ret)
  /\ (Called(fast) /\ fast.err = NoErr) => Valid(fast.ret)

(***************************************************************************)
(* C3.  For every non-empty proper prefix of a valid document (written     *)
(* from its opening bracket) that does not split a numeral, EnsureJSON     *)
(* returns no error, and what it returns decodes to a value that holds     *)
(* every member and element written in full, with the same value and       *)
(* nesting, and at most one more trailing member.                          *)
(***************************************************************************)
C3_PrefixConsistency ==
  (Bracketed /\ ~Closed /\ doc.st \notin NumeralPlaces /\ Called(ensured)) =>
    /\ ensured.err = NoErr
    /\ Holds(Decoded(ensured), 2)

(***************************************************************************)
(* C4.  For a valid JSON text that opens with "{" or "[" and ends with the *)
(* closer of that container, EnsureJSON returns without error a text that  *)
(* decodes to the value a standard decode of the input gives.              *)
(***************************************************************************)
C4_ClosedInputPrecise ==
  (Bracketed /\ Closed /\ Called(ensured)) =>
    /\ ensured.err = NoErr
    /\ Unmarshal(ensured.ret) = Unmarshal(text)

(***************************************************************************)
(* C5.  For a well-formed, balanced JSON text FastEnsureJSON returns the   *)
(* input character for character: neither cleanup rewrite fires.           *)
(***************************************************************************)
C5_ClosedInputFast ==
  (Closed /\ Called(fast)) => fast = [ret |-> text, err |-> NoErr]

\* the input is an object, and the writer is inside the string that is the
\* value of one of its members
InStringValue ==
  /\ Len(text) > 0 /\ text[1] = "{"
  /\ Len(doc.stk) = 2
  /\ doc.st \in StringPlaces

\* the input is an object that breaks off behind the key of a member: right
\* after the key, after the ":", or inside a string that is the value
AfterKey ==
  /\ Len(text) > 0 /\ text[1] = "{"
  /\ Len(doc.stk) = 2
  /\ doc.st \in {"colon", "value"} \cup StringPlaces

\* the key of the member being written, and the members written in full
PendingKey == doc.stk[2].key.v
Members == doc.stk[2].acc

\* the characters of the string being written, behind its opening quote
Partial == Tail(doc.tok)

(***************************************************************************)
(* C6, as the specification states it.  For an object whose last member    *)
(* has a complete key and an unterminated string value, lenient EnsureJSON *)
(* keeps the member with the partial text as its value and strict          *)
(* EnsureJSON drops the member (no string literal before ends in an        *)
(* escaped backslash).                                                     *)
(***************************************************************************)
C6_AsStated ==
  (InStringValue /\ doc.bs = "none" /\ Called(ensured)) =>
    /\ ensured.err = NoErr
    /\ Decoded(ensured).k = "obj"
    /\ IF p.strict
       THEN ~MapHas(Decoded(ensured).v, PendingKey) \/ MapHas(Members, PendingKey)
       ELSE /\ MapHas(Decoded(ensured).v, PendingKey)
            /\ MapGet(Decoded(ensured).v, PendingKey) = Str(TrimRight(Partial))

(***************************************************************************)
(* C6, amended.  For an object whose last member has a complete key and an *)
(* unterminated string value, EnsureJSON returns an object that has the    *)
(* key: with the partial text (its trailing whitespace trimmed) in lenient *)
(* mode, with null in strict mode.  When a string literal before the value *)
(* ends in an escaped backslash, EnsureJSON fails with the error of        *)
(* encoding/json instead, in both modes.                                   *)
(***************************************************************************)
C6_StrictLenientString ==
  (InStringValue /\ Called(ensured)) =>
    IF doc.bs # "none"
    THEN ensured = [ret |-> <<>>, err |-> ErrJSON]
    ELSE /\ ensured.err = NoErr
         /\ Decoded(ensured).k = "obj"
         /\ MapHas(Decoded(ensured).v, PendingKey)
         /\ MapGet(Decoded(ensured).v, PendingKey) =
              IF p.strict THEN Null ELSE Str(TrimRight(Partial))

\* lenient mode keeps the text of a truncated string value, behind a member
\* written in full
C6_Witness ==
  /\ InStringValue /\ doc.bs = "none" /\ ~p.strict
  /\ Len(Partial) > 0 /\ Len(Members) > 0
  /\ Called(ensured) /\ ensured.err = NoErr
  /\ MapGet(Decoded(ensured).v, PendingKey) = Str(Partial)

(***************************************************************************)
(* C7.  In strict mode, when an object breaks off behind a complete member *)
(* key (right after the key, after the ":", or inside an unterminated      *)
(* string value), EnsureJSON returns an object that has the key with null  *)
(* and every member written in full before it, unchanged (no string        *)
(* literal before ends in an escaped backslash).                           *)
(***************************************************************************)
C7_TruncatedMemberNull ==
  (AfterKey /\ p.strict /\ doc.bs = "none" /\ Called(ensured)) =>
    /\ ensured.err = NoErr
    /\ Decoded(ensured) = Obj(MapPut(Members, PendingKey, Null))

\* some array encloses the place of the writer
InArray == \E i \in 1..Len(doc.stk) : doc.stk[i].kind = "["

C9_IncompleteNumNotFatal ==
  (/\ Bracketed
   /\ doc.st \in NumeralPlaces
   /\ parseNumber(p, doc.tok).err = ErrIncompleteNum
   /\ Called(ensured)) =>
    /\ ensured.err = NoErr
    /\ Holds(Decoded(ensured), 2)

(***************************************************************************)
(* C10.  EnsureJSON fails with ErrUnexpectedToken, and returns no text,    *)
(* exactly when the input is empty or its first character after trimming   *)
(* whitespace is neither "{" nor "[": a bracket behind leading whitespace  *)
(* passes the check.                                                       *)
(***************************************************************************)
C10_TopLevelBracket ==
  Called(ensured) =>
    IF Len(TrimLeft(text)) = 0 \/ TrimLeft(text)[1] \notin {"{", "["}
    THEN ensured = [ret |-> <<>>, err |-> ErrUnexpectedToken]
    ELSE ~rejectsAtTop(text)

\* the openers of s that are open at position i outside string literals, as
\* JSON reads them (inside a literal a backslash escapes the character after
\* it, whatever that is); ok = FALSE at a closer outside every literal that
\* closes none
RECURSIVE OpenDelims(_, _, _, _)
OpenDelims(s, i, open, mode) ==
  IF i >= Len(s) THEN [ok |-> TRUE, stack |-> open]
  ELSE IF mode = "esc" THEN OpenDelims(s, i + 1, open, "in")
  ELSE IF mode = "in"
  THEN OpenDelims(s, i + 1, open,
                  IF At(s, i) = BSLASH THEN "esc"
                  ELSE IF At(s, i) = QUOTE THEN "out" ELSE "in")
  ELSE IF At(s, i) = QUOTE THEN OpenDelims(s, i + 1, open, "in")
  ELSE IF At(s, i) \in {"{", "["} THEN OpenDelims(s, i + 1, Append(open, i), mode)
  ELSE IF At(s, i) \in Closers
  THEN IF Len(open) = 0 \/ At(s, open[Len(open)]) # getReverseDelim(At(s, i))
       THEN [ok |-> FALSE, stack |-> <<>>]
       ELSE OpenDelims(s, i + 1, SubSeq(open, 1, Len(open) - 1), mode)
  ELSE OpenDelims(s, i + 1, open, mode)

(***************************************************************************)
(* C11.  The scan of FastEnsureJSON ends, on every input it has read so    *)
(* far, with exactly the positions of the "{" and "[" that are open        *)
(* outside string literals on its stack (brackets inside a literal are     *)
(* neither pushed nor popped, whatever escapes the literal holds), and     *)
(* FastEnsureJSON fails with ErrUnexpectedToken and no text on empty input *)
(* and on a closer outside every literal that closes no opener of its      *)
(* kind.                                                                   *)
(***************************************************************************)
C11_DelimiterScan ==
  Called(fast) =>
    IF Len(text) = 0 \/ ~OpenDelims(text, 0, <<>>, "out").ok
    THEN fast = [ret |-> <<>>, err |-> ErrUnexpectedToken]
    ELSE scanDelims(text, 0, <<>>, FALSE) = OpenDelims(text, 0, <<>>, "out")

\* the string literal that opens the input of the rule, decoded as
\* encoding/json decodes it: whether it is complete, its value, and the
\* place after its closing quote
Literal == Unquote(run.input, 2, <<>>)

(***************************************************************************)
(* C12.  For an input that begins with a complete JSON string literal      *)
(* (escaped quotes and an escaped backslash before the closing quote       *)
(* included), parseString returns, in either mode, the decoded string, the *)
(* text right after the literal's closing quote, and no error.             *)
(***************************************************************************)
C12_TrueClosingQuote ==
  (run.op = "parseString" /\ Literal.ok) =>
    run.ret = Ret(Str(Literal.str),
                  SubSeq(run.input, Literal.next, Len(run.input)), NoErr)

(***************************************************************************)
(* C13.  Every call of a container rule ends: a rule that succeeds on the  *)
(* text left, or on any non-empty tail of the input of the call, returns a *)
(* strictly shorter remainder, every loop iteration that does not exit     *)
(* leaves strictly less text than it found, and the loop is left in the    *)
(* end.                                                                    *)
(***************************************************************************)
C13_TerminationByProgress ==
  /\ [][Looping =>
          /\ (Len(run.s) > 0 /\ parseAny(p, run.s).err = NoErr) =>
               Len(parseAny(p, run.s).rest) < Len(run.s)
          /\ \A i \in 0..(Len(run.input) - 1) :
               parseAny(p, From(run.input, i)).err = NoErr =>
                 Len(parseAny(p, From(run.input, i)).rest) < Len(run.input) - i
          /\ (run' # run /\ run'.pc = "loop") => Len(run'.s) < Len(run.s)]_vars
  /\ (run.op \in Loops) ~> (run.op \in Loops /\ run.pc = "done")

\* an array loop that ran its body to the end twice and was left
C13_Witness ==
  /\ run.op = "parseArray"
  /\ run.pc = "done"
  /\ run.n >= 2

====
